---- MODULE Spec2Model ----
(***************************************************************************)
(* Model of the nydus image-service core:                                  *)
(*   - storage/src/backend/connection.rs : Connection (proxy, health       *)
(*     thread, call / call_inner / respond)                                *)
(*   - src/bin/nydusd/main.rs : DaemonController (shutdown, run_loop),     *)
(*     the signal handler sig_exit and main                                *)
(***************************************************************************)
EXTENDS Integers, Sequences, FiniteSets, TLC

(***************************************************************************)
(* Bounds of the model                                                     *)
(***************************************************************************)
\* number of distinct payloads a request body can carry
NumContents == 1
\* number of SIGINT/SIGTERM deliveries
MaxSignals == 2
\* number of waker events raised by hosted services that stop
MaxServiceStops == 1
\* the numbers given to handle_rlimit_nofile_option lie within this distance
\* of the values its comparisons test
RlimitSlack == 1
\* number of characters of a prefetch manifest
MaxManifestLen == 4
\* number of reads made through one Progress reader
MaxReads == 4
\* largest number of bytes one read of the inner reader returns
MaxCount == 2
\* largest total given to Progress::new
MaxTotal == 2
\* number of operations called on one NoopSuperBlock
MaxNoopCalls == 3
\* largest inode number and chunk index given to a NoopSuperBlock
MaxInode == 1
\* resolution of the clock: ticks in one second
TicksPerSecond == 2
\* ticks the clock can be ahead of its reading at the construction
MaxElapsed == 5

(***************************************************************************)
(* Program constants                                                       *)
(***************************************************************************)
HEADER_AUTHORIZATION == "Authorization"
RATE_LIMITED_LOG_TIME == 2
UNIX_EPOCH == 0
\* reqwest::StatusCode constants used by the code
OK == 200
BAD_REQUEST == 400
INTERNAL_SERVER_ERROR == 500
\* main.rs
RLIMIT_NOFILE_RESERVED == 16384
RLIMIT_NOFILE_MAX == 1000000

VARIABLES
    \* ---- Connection (connection.rs) ----
    proxy,            \* Connection.proxy : Option<Proxy> (fallback, health.ping_url)
    health_status,    \* ProxyHealth.status
    shutdown,         \* Connection.shutdown
    hpc,              \* position of the proxy-health thread
    last_success,     \* local of the health thread
    hlog,             \* log line emitted by the latest probe of the health thread
    last_ping,        \* what send() gave the latest probe of the health thread
    now,              \* SystemTime::now(), in ticks since UNIX_EPOCH
    LAST_FALLBACK_AT, \* thread local of the calling thread
    warn_times,       \* readings of the clock at which the calling thread emitted
                      \* the 'proxy unhealthy' warning
    cpc,              \* position of the thread inside call()
    req,              \* arguments of the call in progress
    started_after_shutdown, \* shutdown() had returned when the call started
    health_read,      \* values of ProxyHealth.ok() read by the call in progress
    proxy_sent,       \* requests handed to the proxy client by the call
    origin_sent,      \* requests handed to the origin client by the call
    proxy_ret,        \* value of `result` of the proxy attempt
    origin_ret,       \* value returned by the origin attempt
    call_logs,        \* log records emitted by the call
    result,           \* value returned by call()
    \* ---- DaemonController, sig_exit and main (main.rs) ----
    active,           \* DaemonController.active
    singleton_mode,   \* DaemonController.singleton_mode
    daemon,           \* DaemonController.daemon : content of the slot
    daemon_lock,      \* owner of the daemon mutex
    blob_cache_mgr,   \* DaemonController.blob_cache_mgr : content of the slot
    blob_cache_mgr_lock, \* owner of the blob_cache_mgr mutex
    fs_service,       \* DaemonController.fs_service : content of the slot
    fs_service_lock,  \* owner of the fs_service mutex
    waker_event,      \* readable event pending on the poller for Token(1)
    subcommand,       \* args.subcommand_name()
    mpc,              \* position of the main thread
    events,           \* `events` of run_loop: the waker event was returned by poll
    sd,               \* activations of DaemonController::shutdown: 0 is the call
                      \* by main, i > 0 the handler of the i-th signal
    api_state,        \* ApiServerController
    stop_calls,       \* trace of trigger_stop / wait on the installed daemon
    service_stops,    \* number of waker events raised by stopping services
    loop_exit,        \* what run_loop observed when it returned
    exit_code,        \* value returned by main
    \* ---- arguments and values of functions applied on their own ----
    rs_args,          \* respond: the response and catch_status
    rs_ret,           \* respond: the value returned
    rl_args,          \* handle_rlimit_nofile_option: the option, fs.file-max, the
                      \* limits of the process and the outcomes of the system calls
    rl_limit,         \* RLIMIT_NOFILE of the process: (soft, hard)
    rl_trace,         \* values given to Resource::NOFILE.set; underflow seen
    rl_ret,           \* handle_rlimit_nofile_option: the value returned
    pf_args,          \* process_fs_service: the command line options and the files
    pf_out,           \* process_fs_service: its value and the mount command built
    pg_total,         \* Progress::new: the total given
    progress,         \* the Progress reader: its fields current and total
    pg_ret,           \* Progress::read: the values returned, in call order
    pg_calls,         \* arguments of the invocations of the callback, in order
    noop_blk,         \* the NoopSuperBlock
    noop_calls,       \* operations called on the NoopSuperBlock and their outcomes
    noop_panicked     \* the calling thread panicked

connVars == <<proxy, health_status, shutdown, hpc, last_success, hlog, last_ping, now,
              LAST_FALLBACK_AT, warn_times, cpc, req, started_after_shutdown, health_read,
              proxy_sent, origin_sent, proxy_ret, origin_ret, call_logs, result>>

slotVars == <<blob_cache_mgr, blob_cache_mgr_lock, fs_service, fs_service_lock>>

daemonVars == <<active, singleton_mode, daemon, daemon_lock, slotVars, waker_event,
                subcommand, mpc, events, sd, api_state, stop_calls,
                service_stops, loop_exit, exit_code>>

respondVars == <<rs_args, rs_ret>>
rlimitVars == <<rl_args, rl_limit, rl_trace, rl_ret>>
prefetchVars == <<pf_args, pf_out>>
progressVars == <<pg_total, progress, pg_ret, pg_calls>>
noopVars == <<noop_blk, noop_calls, noop_panicked>>
fnVars == <<respondVars, rlimitVars, prefetchVars, progressVars, noopVars>>

vars == <<connVars, daemonVars, fnVars>>

(***************************************************************************)
(* Values                                                                  *)
(***************************************************************************)
Methods == {"GET", "PUT"}
Urls == {"http://origin/blob"}
Queries == {<<>>, <<"k", "v">>}
HeaderSets == {{}, {HEADER_AUTHORIZATION, "Range"}}
Contents == {<<i>> : i \in 1..NumContents}
NoData == [kind |-> "None", content |-> <<>>]
\* Option<ReqBody<R>>
Datas == {NoData} \cup [kind : {"Read", "Buf", "Form"}, content : Contents]
Requests == [method : Methods, url : Urls, query : Queries, data : Datas,
             headers : HeaderSets, catch_status : BOOLEAN]
NoReq == [method |-> "GET", url |-> "http://origin/blob", query |-> <<>>,
          data |-> NoData, headers |-> {}, catch_status |-> FALSE]

Statuses == {200, 404, 500, 503}
\* largest status code a response given to respond carries
MaxStatusCode == 599
\* reqwest::StatusCode values
StatusCodes == 100..MaxStatusCode
\* statuses a ping URL answers with
PingStatuses == {100, 200, 308, 404}
TransportError == [kind |-> "error", status |-> 0, text_ok |-> TRUE]
\* what send() produces: a transport error, or a response with a status whose
\* body text can be read, or cannot (which shows only where respond reads it)
Outcomes == {TransportError} \cup
            [kind : {"response"}, status : Statuses, text_ok : {TRUE}] \cup
            [kind : {"response"}, status : {s \in Statuses : s >= 400}, text_ok : {FALSE}]

\* what send() produces for the ping of the health thread
PingOutcomes == {TransportError} \cup
                [kind : {"response"}, status : PingStatuses, text_ok : {TRUE}]
NoPing == [kind |-> "none", status |-> 0, text_ok |-> TRUE]

NoResult == [ok |-> FALSE, kind |-> "none", status |-> 0, from |-> "none"]
Disconnected == [ok |-> FALSE, kind |-> "Disconnected", status |-> 0, from |-> "none"]

NoProxy == [configured |-> FALSE, fallback |-> FALSE, has_ping |-> FALSE]
Proxies == {NoProxy} \cup
           [configured : {TRUE}, fallback : BOOLEAN, has_ping : BOOLEAN]


(***************************************************************************)
(* connection.rs: pure helpers                                             *)
(***************************************************************************)
\* is_success_status(status)
is_success_status(status) == status >= OK /\ status < BAD_REQUEST

ResultOk(resp, from) ==
    [ok |-> TRUE, kind |-> "Response", status |-> resp.status, from |-> from]
ResultErr(kind, status, from) ==
    [ok |-> FALSE, kind |-> kind, status |-> status, from |-> from]

\* mutant of respond: the status is tested whatever catch_status
respond_AlwaysCatches(resp, catch_status, from) ==
    IF is_success_status(resp.status)
    THEN ResultOk(resp, from)
    ELSE IF resp.text_ok
         THEN ResultErr("ErrorWithMsg", resp.status, from)
         ELSE ResultErr("Format", resp.status, from)

\* respond(resp, catch_status): resp.text() fails with Format when the body
\* cannot be read
respond(resp, catch_status, from) ==
    IF ~catch_status \/ is_success_status(resp.status)
    THEN ResultOk(resp, from)
    ELSE IF resp.text_ok
         THEN ResultErr("ErrorWithMsg", resp.status, from)
         ELSE ResultErr("Format", resp.status, from)

\* respond applied on its own: the arguments and the place of the value
RespondArgs == [status : StatusCodes, text_ok : BOOLEAN, catch_status : BOOLEAN]
NoRespondArgs == [status |-> OK, text_ok |-> TRUE, catch_status |-> FALSE]

InitRespondIdle ==
    /\ rs_args = NoRespondArgs
    /\ rs_ret = NoResult

\* respond(resp, catch_status) is called with the arguments rs_args
Respond ==
    /\ rs_ret = NoResult
    /\ rs_ret' = respond([kind |-> "response", status |-> rs_args.status,
                          text_ok |-> rs_args.text_ok],
                         rs_args.catch_status, "origin")
    /\ UNCHANGED <<rs_args, rlimitVars, prefetchVars, progressVars, noopVars, connVars, daemonVars>>

\* the body handed to the request builder by call_inner
SentBody(data) ==
    CASE data.kind = "Read" -> [enc |-> "sized", bytes |-> data.content]
      [] data.kind = "Buf"  -> [enc |-> "raw", bytes |-> data.content]
      [] data.kind = "Form" -> [enc |-> "form", bytes |-> data.content]
      [] OTHER              -> [enc |-> "raw", bytes |-> <<>>]

\* mutant of display_headers: the clone keeps every header
display_headers_KeepsAll(headers) == headers

\* display_headers of call_inner
display_headers(headers) == headers \ {HEADER_AUTHORIZATION}

\* call_inner(client, method, url, query, data, headers, catch_status, proxy):
\* the request given to `client`, the debug record and the returned value,
\* for the outcome `out` of send()
call_inner(client, method, url, query, data, headers, catch_status, is_proxy, out) ==
    [sent |-> [method |-> method, url |-> url, query |-> query,
               headers |-> headers, body |-> SentBody(data)],
     log  |-> [kind |-> "request", method |-> method, url |-> url,
               headers |-> display_headers(headers), proxy |-> is_proxy,
               has_data |-> data.kind # "None"],
     ret  |-> IF out.kind = "error"
              THEN ResultErr("Common", 0, client)
              ELSE respond(out, catch_status, client)]

\* mutant of data_cloned: the Buf body is not cloned
data_cloned_DropsBuf(data) ==
    IF data.kind = "Form" THEN data ELSE NoData

\* data_cloned of call: only Form and Buf bodies are cloned for the proxy
data_cloned(data) ==
    IF data.kind \in {"Form", "Buf"} THEN data ELSE NoData

\* mutant of ProxyResultReturned: an error of the proxy attempt is returned
\* whatever the fallback flag
ProxyResultReturned_ErrFinal(fallback, res) ==
    IF res.ok
    THEN ~fallback \/ res.status < INTERNAL_SERVER_ERROR
    ELSE TRUE

\* the match on `result` in call: TRUE when call returns the proxy's result
ProxyResultReturned(fallback, res) ==
    IF res.ok
    THEN ~fallback \/ res.status < INTERNAL_SERVER_ERROR
    ELSE ~fallback

\* mutant of ShutdownLoaded: the flag is not tested
ShutdownLoaded_NotTested == FALSE

\* self.shutdown.load(Ordering::Acquire) at the top of call
ShutdownLoaded == shutdown

\* mutant of ProxyFirst: the health of the proxy is ignored
ProxyFirst_IgnoresHealth(ok) == proxy.configured

\* `if let Some(proxy) = &self.proxy { if proxy.health.ok() {`
ProxyFirst(ok) == proxy.configured /\ ok

\* Duration::as_secs: whole seconds of a duration given in ticks
as_secs(d) == d \div TicksPerSecond

\* mutant of RateLimitElapsed: the warning is not rate limited
RateLimitElapsed_Always(current, last) == TRUE

\* current.duration_since(last).unwrap().as_secs() >= RATE_LIMITED_LOG_TIME,
\* for current >= last
RateLimitElapsed(current, last) ==
    as_secs(current - last) >= RATE_LIMITED_LOG_TIME

\* readings of SystemTime::now(): the process runs long after UNIX_EPOCH
StartTime == UNIX_EPOCH + RATE_LIMITED_LOG_TIME * TicksPerSecond
Times == StartTime..(StartTime + MaxElapsed)

\* mutant of SpawnsHealthThread: the thread is spawned for every proxy
SpawnsHealthThread_Always == proxy.configured

\* `if let Some(proxy) = &connection.proxy { if proxy.health.ping_url.is_some() {`
SpawnsHealthThread == proxy.configured /\ proxy.has_ping

\* mutant of ProbeSuccess: only a 200 counts
ProbeSuccess_Only200(out) == out.kind = "response" /\ out.status = OK

\* the value the closures give to proxy.health.set for the result of send():
\* is_success_status(resp.status()) in map, false in map_err
ProbeSuccess(out) == out.kind = "response" /\ is_success_status(out.status)

\* mutant of ProbeLog: every failed probe warns
ProbeLog_EveryFailure(last, success) ==
    IF ~success THEN "warn"
    ELSE IF ~last THEN "info"
    ELSE "none"

\* the log line of the closures of one probe, for the remembered last_success
\* and the result of this probe
ProbeLog(last, success) ==
    IF last /\ ~success THEN "warn"
    ELSE IF ~last /\ success THEN "info"
    ELSE "none"

(***************************************************************************)
(* connection.rs: Connection::new                                          *)
(***************************************************************************)
InitConn ==
    /\ proxy \in Proxies
    /\ health_status = TRUE
    /\ shutdown = FALSE
    /\ hpc = IF SpawnsHealthThread THEN "probe" ELSE "none"
    /\ last_success = TRUE
    /\ hlog = "none"
    /\ last_ping = NoPing
    /\ now = StartTime
    /\ LAST_FALLBACK_AT = UNIX_EPOCH
    /\ warn_times = <<>>
    /\ cpc = "idle"
    /\ req = NoReq
    /\ started_after_shutdown = FALSE
    /\ health_read = <<>>
    /\ proxy_sent = <<>>
    /\ origin_sent = <<>>
    /\ proxy_ret = NoResult
    /\ origin_ret = NoResult
    /\ call_logs = <<>>
    /\ result = NoResult

healthVars == <<health_status, hpc, last_success, hlog, last_ping>>
callVars == <<cpc, req, started_after_shutdown, health_read, proxy_sent,
              origin_sent, proxy_ret, origin_ret, call_logs, result>>

(***************************************************************************)
(* connection.rs: Connection::shutdown                                     *)
(***************************************************************************)
ConnShutdown ==
    /\ shutdown' = TRUE
    /\ UNCHANGED <<proxy, healthVars, now, LAST_FALLBACK_AT, warn_times, callVars, daemonVars, fnVars>>

(***************************************************************************)
(* connection.rs: the proxy-health thread                                  *)
(***************************************************************************)
\* one ping: send(), then the map / map_err closures
HealthProbe ==
    /\ hpc = "probe"
    /\ \E out \in PingOutcomes :
         LET success == ProbeSuccess(out)
         IN /\ last_ping' = out
            /\ hlog' = ProbeLog(last_success, success)
            /\ last_success' = success
            /\ health_status' = success
    /\ hpc' = "check1"
    /\ UNCHANGED <<proxy, shutdown, now, LAST_FALLBACK_AT, warn_times, callVars, daemonVars, fnVars>>

\* the test of the shutdown flag after the probe
HealthCheckAfterProbe ==
    /\ hpc = "check1"
    /\ hpc' = IF shutdown THEN "exited" ELSE "sleep"
    /\ UNCHANGED <<proxy, health_status, last_success, hlog, last_ping, shutdown, now,
                   LAST_FALLBACK_AT, warn_times, callVars, daemonVars, fnVars>>

\* thread::sleep(check_interval)
HealthSleep ==
    /\ hpc = "sleep"
    /\ hpc' = "check2"
    /\ UNCHANGED <<proxy, health_status, last_success, hlog, last_ping, shutdown, now,
                   LAST_FALLBACK_AT, warn_times, callVars, daemonVars, fnVars>>

\* mutant of HealthCheckAfterSleep: the flag is not tested after the sleep
HealthCheckAfterSleep_NoTest ==
    /\ hpc = "check2"
    /\ hpc' = "probe"
    /\ UNCHANGED <<proxy, health_status, last_success, hlog, last_ping, shutdown, now,
                   LAST_FALLBACK_AT, warn_times, callVars, daemonVars, fnVars>>

\* the test of the shutdown flag after the sleep
HealthCheckAfterSleep ==
    /\ hpc = "check2"
    /\ hpc' = IF shutdown THEN "exited" ELSE "probe"
    /\ UNCHANGED <<proxy, health_status, last_success, hlog, last_ping, shutdown, now,
                   LAST_FALLBACK_AT, warn_times, callVars, daemonVars, fnVars>>

(***************************************************************************)
(* connection.rs: SystemTime::now() as read by call                        *)
(***************************************************************************)
\* the system clock moves: forward as time passes, or to any other reading
\* when it is set (SystemTime is not monotonic)
ClockStep ==
    /\ \E t \in Times : t # now /\ now' = t
    /\ UNCHANGED <<proxy, healthVars, shutdown, LAST_FALLBACK_AT, warn_times,
                   callVars, daemonVars, fnVars>>

(***************************************************************************)
(* connection.rs: Connection::call                                         *)
(***************************************************************************)
\* a thread invokes call() with arguments out of R
CallBeginOf(R) ==
    /\ cpc = "idle"
    /\ \E r \in R : req' = r
    /\ cpc' = "check"
    /\ started_after_shutdown' = shutdown
    /\ UNCHANGED <<proxy, healthVars, shutdown, now, LAST_FALLBACK_AT, warn_times, health_read,
                   proxy_sent, origin_sent, proxy_ret, origin_ret, call_logs,
                   result, daemonVars, fnVars>>

\* a thread invokes call() with some arguments
CallBegin == CallBeginOf(Requests)

\* if self.shutdown.load(..) { return Err(Disconnected) }
CallCheckShutdown ==
    /\ cpc = "check"
    /\ IF ShutdownLoaded
       THEN /\ result' = Disconnected
            /\ cpc' = "done"
       ELSE /\ cpc' = "route"
            /\ UNCHANGED result
    /\ UNCHANGED <<proxy, healthVars, shutdown, now, LAST_FALLBACK_AT, warn_times, req,
                   started_after_shutdown, health_read, proxy_sent, origin_sent,
                   proxy_ret, origin_ret, call_logs, daemonVars, fnVars>>

\* the choice of the first client; with an unhealthy proxy the rate limited
\* warning of the else branch
CallRoute ==
    /\ cpc = "route"
    /\ IF ~proxy.configured
       THEN /\ cpc' = "origin"
            /\ UNCHANGED <<health_read, LAST_FALLBACK_AT, warn_times, call_logs>>
       ELSE /\ health_read' = Append(health_read, health_status)
            /\ IF ProxyFirst(health_status)
               THEN /\ cpc' = "proxy"
                    /\ UNCHANGED <<LAST_FALLBACK_AT, warn_times, call_logs>>
               ELSE IF now < LAST_FALLBACK_AT
                    THEN \* duration_since gives Err and unwrap panics
                         /\ cpc' = "panicked"
                         /\ UNCHANGED <<LAST_FALLBACK_AT, warn_times, call_logs>>
                    ELSE /\ cpc' = "origin"
                         /\ IF RateLimitElapsed(now, LAST_FALLBACK_AT)
                            THEN /\ call_logs' = Append(call_logs, [kind |-> "warn_unhealthy"])
                                 /\ LAST_FALLBACK_AT' = now
                                 /\ warn_times' = Append(warn_times, now)
                            ELSE UNCHANGED <<LAST_FALLBACK_AT, warn_times, call_logs>>
    /\ UNCHANGED <<proxy, healthVars, shutdown, now, req, started_after_shutdown,
                   proxy_sent, origin_sent, proxy_ret, origin_ret, result,
                   daemonVars, fnVars>>

\* call_inner(&proxy.client, ..) and the match on its result
CallProxy ==
    /\ cpc = "proxy"
    /\ \E out \in Outcomes :
         LET c == call_inner("proxy", req.method, req.url, req.query,
                             data_cloned(req.data), req.headers,
                             req.catch_status, TRUE, out)
         IN /\ proxy_sent' = Append(proxy_sent, c.sent)
            /\ proxy_ret' = c.ret
            /\ IF ProxyResultReturned(proxy.fallback, c.ret)
               THEN /\ result' = c.ret
                    /\ cpc' = "done"
                    /\ call_logs' = Append(call_logs, c.log)
               ELSE /\ cpc' = "origin"
                    /\ call_logs' = call_logs \o <<c.log, [kind |-> "warn_fallback"]>>
                    /\ UNCHANGED result
    /\ UNCHANGED <<proxy, healthVars, shutdown, now, LAST_FALLBACK_AT, warn_times, req,
                   started_after_shutdown, health_read, origin_sent, origin_ret,
                   daemonVars, fnVars>>

\* call_inner(&self.client, ..), whose value call returns
CallOrigin ==
    /\ cpc = "origin"
    /\ \E out \in Outcomes :
         LET c == call_inner("origin", req.method, req.url, req.query, req.data,
                             req.headers, req.catch_status, FALSE, out)
         IN /\ origin_sent' = Append(origin_sent, c.sent)
            /\ origin_ret' = c.ret
            /\ result' = c.ret
            /\ call_logs' = Append(call_logs, c.log)
    /\ cpc' = "done"
    /\ UNCHANGED <<proxy, healthVars, shutdown, now, LAST_FALLBACK_AT, warn_times, req,
                   started_after_shutdown, health_read, proxy_sent, proxy_ret,
                   daemonVars, fnVars>>

\* call() has returned and its frame is gone; the thread may call again
CallReturn ==
    /\ cpc = "done"
    /\ cpc' = "idle"
    /\ req' = NoReq
    /\ started_after_shutdown' = FALSE
    /\ health_read' = <<>>
    /\ proxy_sent' = <<>>
    /\ origin_sent' = <<>>
    /\ proxy_ret' = NoResult
    /\ origin_ret' = NoResult
    /\ call_logs' = <<>>
    /\ result' = NoResult
    /\ UNCHANGED <<proxy, healthVars, shutdown, now, LAST_FALLBACK_AT, warn_times, daemonVars, fnVars>>


(***************************************************************************)
(* main.rs: DaemonController::new and the start of main                    *)
(***************************************************************************)
Subcommands == {"singleton", "fuse"}
\* 0 is the main thread's own call of shutdown(), i > 0 the i-th signal
Activations == 0..MaxSignals
Handlers == 1..MaxSignals
NoActivation == [pc |-> "none", on_main |-> FALSE, d |-> "none", in_loop |-> FALSE]
NoLoopExit == [returned |-> FALSE, active |-> FALSE, singleton |-> FALSE,
               shutdown_called |-> FALSE]
Unlocked == [held |-> FALSE, by |-> 0]

InitDaemon ==
    /\ active = TRUE
    /\ singleton_mode = TRUE
    /\ daemon = "none"
    /\ daemon_lock = Unlocked
    /\ blob_cache_mgr = "none"
    /\ blob_cache_mgr_lock = Unlocked
    /\ fs_service = "none"
    /\ fs_service_lock = Unlocked
    /\ waker_event = FALSE
    /\ subcommand \in Subcommands
    /\ mpc = "start"
    /\ events = FALSE
    /\ sd = [t \in Activations |-> NoActivation]
    /\ api_state = "new"
    /\ stop_calls = <<>>
    /\ service_stops = 0
    /\ loop_exit = NoLoopExit
    /\ exit_code = "none"

\* the process runs until main returns or panics
Alive == mpc \notin {"done", "failed", "panicked"}

Unfinished(t) == sd[t].pc \notin {"none", "done"}

\* the main thread executes its own code when no handler interrupts it
MainRuns == Alive /\ \A i \in Handlers : ~(sd[i].on_main /\ Unfinished(i))

\* activation t executes: a handler interrupted by a later handler on the same
\* thread waits for it
Runs(t) ==
    /\ Alive
    /\ Unfinished(t)
    /\ IF t = 0
       THEN MainRuns
       ELSE sd[t].on_main =>
              \A j \in Handlers : j > t => ~(sd[j].on_main /\ Unfinished(j))

\* shutdown() has been invoked by some thread
ShutdownCalled == \E t \in Activations : sd[t].pc # "none"

(***************************************************************************)
(* main.rs: DaemonController::shutdown, one action per statement           *)
(***************************************************************************)
\* mutant of SdStoreActive: the flag is flipped instead of cleared
SdStoreActive_Flips(t) ==
    /\ Runs(t) /\ sd[t].pc = "store_active"
    /\ active' = ~active
    /\ sd' = [sd EXCEPT ![t].pc = "store_singleton"]
    /\ UNCHANGED <<singleton_mode, daemon, daemon_lock, waker_event, subcommand,
                   mpc, events, api_state, stop_calls, service_stops, loop_exit,
                   exit_code, connVars, fnVars, slotVars>>

\* self.active.store(false, Release)
SdStoreActive(t) ==
    /\ Runs(t) /\ sd[t].pc = "store_active"
    /\ active' = FALSE
    /\ sd' = [sd EXCEPT ![t].pc = "store_singleton"]
    /\ UNCHANGED <<singleton_mode, daemon, daemon_lock, waker_event, subcommand,
                   mpc, events, api_state, stop_calls, service_stops, loop_exit,
                   exit_code, connVars, fnVars,
                   slotVars>>

\* DAEMON_CONTROLLER.set_singleton_mode(false)
SdStoreSingleton(t) ==
    /\ Runs(t) /\ sd[t].pc = "store_singleton"
    /\ singleton_mode' = FALSE
    /\ sd' = [sd EXCEPT ![t].pc = "wake"]
    /\ UNCHANGED <<active, daemon, daemon_lock, waker_event, subcommand, mpc,
                   events, api_state, stop_calls, service_stops, loop_exit,
                   exit_code, connVars, fnVars,
                   slotVars>>

\* let _ = self.waker.wake()
SdWake(t) ==
    /\ Runs(t) /\ sd[t].pc = "wake"
    /\ waker_event' = TRUE
    /\ sd' = [sd EXCEPT ![t].pc = "lock"]
    /\ UNCHANGED <<active, singleton_mode, daemon, daemon_lock, subcommand, mpc,
                   events, api_state, stop_calls, service_stops, loop_exit,
                   exit_code, connVars, fnVars,
                   slotVars>>

\* self.daemon.lock(): waits while the mutex is held
SdLock(t) ==
    /\ Runs(t) /\ sd[t].pc = "lock"
    /\ ~daemon_lock.held
    /\ daemon_lock' = [held |-> TRUE, by |-> t]
    /\ sd' = [sd EXCEPT ![t].pc = "take"]
    /\ UNCHANGED <<active, singleton_mode, daemon, waker_event, subcommand, mpc,
                   events, api_state, stop_calls, service_stops, loop_exit,
                   exit_code, connVars, fnVars,
                   slotVars>>

\* mutant of SdTake: the slot is read with clone() and keeps its content
SdTake_Clone(t) ==
    /\ Runs(t) /\ sd[t].pc = "take"
    /\ daemon_lock' = Unlocked
    /\ sd' = [sd EXCEPT ![t].d = daemon,
                        ![t].pc = IF daemon = "none" THEN "done" ELSE "trigger_stop"]
    /\ UNCHANGED <<active, singleton_mode, daemon, waker_event, subcommand, mpc,
                   events, api_state, stop_calls, service_stops, loop_exit,
                   exit_code, connVars, fnVars,
                   slotVars>>

\* .unwrap().take(), the guard dropped at the end of the statement;
\* `if let Some(d) = daemon`
SdTake(t) ==
    /\ Runs(t) /\ sd[t].pc = "take"
    /\ daemon' = "none"
    /\ daemon_lock' = Unlocked
    /\ sd' = [sd EXCEPT ![t].d = daemon,
                        ![t].pc = IF daemon = "none" THEN "done" ELSE "trigger_stop"]
    /\ UNCHANGED <<active, singleton_mode, waker_event, subcommand, mpc, events,
                   api_state, stop_calls, service_stops, loop_exit, exit_code,
                   connVars, fnVars,
                   slotVars>>

\* d.trigger_stop()
SdTriggerStop(t) ==
    /\ Runs(t) /\ sd[t].pc = "trigger_stop"
    /\ stop_calls' = Append(stop_calls, "trigger_stop")
    /\ sd' = [sd EXCEPT ![t].pc = "wait"]
    /\ UNCHANGED <<active, singleton_mode, daemon, daemon_lock, waker_event,
                   subcommand, mpc, events, api_state, service_stops, loop_exit,
                   exit_code, connVars, fnVars,
                   slotVars>>

\* d.wait()
SdWait(t) ==
    /\ Runs(t) /\ sd[t].pc = "wait"
    /\ stop_calls' = Append(stop_calls, "wait")
    /\ sd' = [sd EXCEPT ![t].pc = "done"]
    /\ UNCHANGED <<active, singleton_mode, daemon, daemon_lock, waker_event,
                   subcommand, mpc, events, api_state, service_stops, loop_exit,
                   exit_code, connVars, fnVars,
                   slotVars>>

ShutdownStep(t) ==
    \/ SdStoreActive(t)
    \/ SdStoreSingleton(t)
    \/ SdWake(t)
    \/ SdLock(t)
    \/ SdTake(t)
    \/ SdTriggerStop(t)
    \/ SdWait(t)

(***************************************************************************)
(* main.rs: sig_exit, registered for SIGINT and SIGTERM                    *)
(***************************************************************************)
\* a signal is delivered, to the main thread or to another thread of the
\* process, and its handler enters DAEMON_CONTROLLER.shutdown()
SigExit ==
    /\ Alive
    /\ \E i \in Handlers :
         /\ sd[i].pc = "none"
         /\ \A j \in Handlers : j < i => sd[j].pc # "none"
         /\ \E m \in BOOLEAN :
              sd' = [sd EXCEPT ![i] = [pc |-> "store_active", on_main |-> m,
                                       d |-> "none", in_loop |-> mpc = "poll"]]
    /\ UNCHANGED <<active, singleton_mode, daemon, daemon_lock, waker_event,
                   subcommand, mpc, events, api_state, stop_calls, service_stops,
                   loop_exit, exit_code, connVars, fnVars,
                   slotVars>>

\* a service hosted by the daemon stops and wakes the waker it was given
\* (alloc_waker) when the daemon was created
ServiceStopWake ==
    /\ Alive
    /\ mpc # "start"
    /\ service_stops < MaxServiceStops
    /\ service_stops' = service_stops + 1
    /\ waker_event' = TRUE
    /\ UNCHANGED <<active, singleton_mode, daemon, daemon_lock, subcommand, mpc,
                   events, sd, api_state, stop_calls, loop_exit, exit_code,
                   connVars, fnVars,
                   slotVars>>


(***************************************************************************)
(* main.rs: main, process_singleton_arguments, process_fs_service          *)
(***************************************************************************)
mainFrame == <<subcommand, sd, stop_calls, service_stops, connVars, fnVars>>

\* create_daemon / create_fuse_daemon, given DAEMON_CONTROLLER.alloc_waker();
\* an error is returned by main with `?`
MainCreateDaemon ==
    /\ MainRuns /\ mpc = "start"
    /\ \E created \in BOOLEAN :
         IF created
         THEN /\ mpc' = IF subcommand = "singleton" THEN "set_singleton"
                        ELSE "set_daemon"
              /\ UNCHANGED exit_code
         ELSE /\ mpc' = "failed"
              /\ exit_code' = "Err"
    /\ UNCHANGED <<active, singleton_mode, daemon, daemon_lock, waker_event,
                   events, api_state, loop_exit, mainFrame, slotVars>>

\* process_singleton_arguments: DAEMON_CONTROLLER.set_singleton_mode(true)
MainSetSingletonMode ==
    /\ MainRuns /\ mpc = "set_singleton"
    /\ singleton_mode' = TRUE
    /\ mpc' = "blob_mgr_option"
    /\ UNCHANGED <<active, daemon, daemon_lock, waker_event, events, api_state,
                   loop_exit, exit_code, mainFrame, slotVars>>

\* process_singleton_arguments: `if let Some(blob_mgr) = daemon.get_blob_cache_mgr()`
MainBlobCacheMgrOption ==
    /\ MainRuns /\ mpc = "blob_mgr_option"
    /\ \E some \in BOOLEAN :
         mpc' = IF some THEN "set_blob_cache_mgr" ELSE "set_daemon"
    /\ UNCHANGED <<active, singleton_mode, daemon, daemon_lock, waker_event,
                   events, api_state, loop_exit, exit_code, mainFrame, slotVars>>

\* set_blob_cache_mgr: self.blob_cache_mgr.lock()
MainSetBlobCacheMgrLock ==
    /\ MainRuns /\ mpc = "set_blob_cache_mgr"
    /\ ~blob_cache_mgr_lock.held
    /\ blob_cache_mgr_lock' = [held |-> TRUE, by |-> 0]
    /\ mpc' = "set_blob_cache_mgr_locked"
    /\ UNCHANGED <<active, singleton_mode, daemon, daemon_lock, waker_event,
                   events, api_state, loop_exit, exit_code, mainFrame,
                   blob_cache_mgr, fs_service, fs_service_lock>>

\* set_blob_cache_mgr: .unwrap().replace(mgr), the guard dropped
MainSetBlobCacheMgrReplace ==
    /\ MainRuns /\ mpc = "set_blob_cache_mgr_locked"
    /\ blob_cache_mgr' = "installed"
    /\ blob_cache_mgr_lock' = Unlocked
    /\ mpc' = "set_daemon"
    /\ UNCHANGED <<active, singleton_mode, daemon, daemon_lock, waker_event,
                   events, api_state, loop_exit, exit_code, mainFrame,
                   fs_service, fs_service_lock>>

\* set_daemon: self.daemon.lock()
MainSetDaemonLock ==
    /\ MainRuns /\ mpc = "set_daemon"
    /\ ~daemon_lock.held
    /\ daemon_lock' = [held |-> TRUE, by |-> 0]
    /\ mpc' = "set_daemon_locked"
    /\ UNCHANGED <<active, singleton_mode, daemon, waker_event, events,
                   api_state, loop_exit, exit_code, mainFrame, slotVars>>

\* set_daemon: .unwrap().replace(daemon), the guard dropped
MainSetDaemonReplace ==
    /\ MainRuns /\ mpc = "set_daemon_locked"
    /\ daemon' = "installed"
    /\ daemon_lock' = Unlocked
    /\ mpc' = "get_daemon"
    /\ UNCHANGED <<active, singleton_mode, waker_event, events, api_state,
                   loop_exit, exit_code, mainFrame, slotVars>>

\* get_daemon: self.daemon.lock()
MainGetDaemonLock ==
    /\ MainRuns /\ mpc = "get_daemon"
    /\ ~daemon_lock.held
    /\ daemon_lock' = [held |-> TRUE, by |-> 0]
    /\ mpc' = "get_daemon_locked"
    /\ UNCHANGED <<active, singleton_mode, daemon, waker_event, events,
                   api_state, loop_exit, exit_code, mainFrame, slotVars>>

\* get_daemon: .unwrap().clone().unwrap(), which panics on an empty slot
MainGetDaemonClone ==
    /\ MainRuns /\ mpc = "get_daemon_locked"
    /\ daemon_lock' = Unlocked
    /\ IF daemon = "none"
       THEN /\ mpc' = "panicked"
            /\ exit_code' = "panic"
       ELSE /\ mpc' = "fs_service_option"
            /\ UNCHANGED exit_code
    /\ UNCHANGED <<active, singleton_mode, daemon, waker_event, events,
                   api_state, loop_exit, mainFrame, slotVars>>

\* main: `if let Some(fs) = daemon.get_default_fs_service()`
MainFsServiceOption ==
    /\ MainRuns /\ mpc = "fs_service_option"
    /\ \E some \in BOOLEAN :
         mpc' = IF some THEN "set_fs_service" ELSE "api_start"
    /\ UNCHANGED <<active, singleton_mode, daemon, daemon_lock, waker_event,
                   events, api_state, loop_exit, exit_code, mainFrame, slotVars>>

\* set_fs_service: self.fs_service.lock()
MainSetFsServiceLock ==
    /\ MainRuns /\ mpc = "set_fs_service"
    /\ ~fs_service_lock.held
    /\ fs_service_lock' = [held |-> TRUE, by |-> 0]
    /\ mpc' = "set_fs_service_locked"
    /\ UNCHANGED <<active, singleton_mode, daemon, daemon_lock, waker_event,
                   events, api_state, loop_exit, exit_code, mainFrame,
                   blob_cache_mgr, blob_cache_mgr_lock, fs_service>>

\* set_fs_service: .unwrap().replace(service), the guard dropped
MainSetFsServiceReplace ==
    /\ MainRuns /\ mpc = "set_fs_service_locked"
    /\ fs_service' = "installed"
    /\ fs_service_lock' = Unlocked
    /\ mpc' = "api_start"
    /\ UNCHANGED <<active, singleton_mode, daemon, daemon_lock, waker_event,
                   events, api_state, loop_exit, exit_code, mainFrame,
                   blob_cache_mgr, blob_cache_mgr_lock>>

\* api_controller.start()?
MainApiStart ==
    /\ MainRuns /\ mpc = "api_start"
    /\ \E started \in BOOLEAN :
         IF started
         THEN /\ api_state' = "started"
              /\ mpc' = "is_active"
              /\ UNCHANGED exit_code
         ELSE /\ mpc' = "failed"
              /\ exit_code' = "Err"
              /\ UNCHANGED api_state
    /\ UNCHANGED <<active, singleton_mode, daemon, daemon_lock, waker_event,
                   events, loop_exit, mainFrame, slotVars>>

\* if DAEMON_CONTROLLER.is_active() { DAEMON_CONTROLLER.run_loop(); }
MainIsActive ==
    /\ MainRuns /\ mpc = "is_active"
    /\ mpc' = IF active THEN "poll" ELSE "api_stop"
    /\ UNCHANGED <<active, singleton_mode, daemon, daemon_lock, waker_event,
                   events, api_state, loop_exit, exit_code, mainFrame, slotVars>>

(***************************************************************************)
(* main.rs: DaemonController::run_loop                                     *)
(***************************************************************************)
\* the value run_loop takes for `self.active.load(Acquire)`: it returns
\* when the value is true
LoopReturnsOnActive(a) == a

\* the value run_loop takes for `!self.singleton_mode.load(Acquire)`
LoopReturnsOnSingleton(s) == ~s

\* poll(&mut events, None) returns the readable event of the waker; an
\* interrupted poll is retried
RunLoopPoll ==
    /\ MainRuns /\ mpc = "poll"
    /\ waker_event
    /\ waker_event' = FALSE
    /\ events' = TRUE
    /\ mpc' = "check_active"
    /\ UNCHANGED <<active, singleton_mode, daemon, daemon_lock, api_state,
                   loop_exit, exit_code, mainFrame, slotVars>>

\* if self.active.load(Acquire) { return; }
RunLoopCheckActive ==
    /\ MainRuns /\ mpc = "check_active"
    /\ IF LoopReturnsOnActive(active)
       THEN /\ mpc' = "api_stop"
            /\ events' = FALSE
            /\ loop_exit' = [returned |-> TRUE, active |-> active,
                             singleton |-> singleton_mode,
                             shutdown_called |-> ShutdownCalled]
       ELSE /\ mpc' = "check_singleton"
            /\ UNCHANGED <<events, loop_exit>>
    /\ UNCHANGED <<active, singleton_mode, daemon, daemon_lock, waker_event,
                   api_state, exit_code, mainFrame, slotVars>>

\* else if !self.singleton_mode.load(Acquire) { self.active.store(false); return; }
\* otherwise the loop polls again
RunLoopCheckSingleton ==
    /\ MainRuns /\ mpc = "check_singleton"
    /\ events' = FALSE
    /\ IF LoopReturnsOnSingleton(singleton_mode)
       THEN /\ active' = FALSE
            /\ mpc' = "api_stop"
            /\ loop_exit' = [returned |-> TRUE, active |-> FALSE,
                             singleton |-> singleton_mode,
                             shutdown_called |-> ShutdownCalled]
       ELSE /\ mpc' = "poll"
            /\ UNCHANGED <<active, loop_exit>>
    /\ UNCHANGED <<singleton_mode, daemon, daemon_lock, waker_event, api_state,
                   exit_code, mainFrame, slotVars>>

(***************************************************************************)
(* main.rs: the end of main                                                *)
(***************************************************************************)
\* api_controller.stop(); then DAEMON_CONTROLLER.shutdown() is entered
MainApiStop ==
    /\ MainRuns /\ mpc = "api_stop"
    /\ api_state' = "stopped"
    /\ mpc' = "shutdown"
    /\ sd' = [sd EXCEPT ![0] = [pc |-> "store_active", on_main |-> TRUE,
                                d |-> "none", in_loop |-> FALSE]]
    /\ UNCHANGED <<active, singleton_mode, daemon, daemon_lock, waker_event,
                   events, loop_exit, exit_code, subcommand, stop_calls,
                   service_stops, connVars, fnVars,
                   slotVars>>

\* Ok(())
MainReturn ==
    /\ MainRuns /\ mpc = "shutdown" /\ sd[0].pc = "done"
    /\ mpc' = "done"
    /\ exit_code' = "Ok"
    /\ UNCHANGED <<active, singleton_mode, daemon, daemon_lock, waker_event,
                   events, api_state, loop_exit, mainFrame, slotVars>>

MainStep ==
    \/ MainCreateDaemon
    \/ MainSetSingletonMode
    \/ MainBlobCacheMgrOption
    \/ MainSetBlobCacheMgrLock
    \/ MainSetBlobCacheMgrReplace
    \/ MainSetDaemonLock
    \/ MainSetDaemonReplace
    \/ MainGetDaemonLock
    \/ MainGetDaemonClone
    \/ MainFsServiceOption
    \/ MainSetFsServiceLock
    \/ MainSetFsServiceReplace
    \/ MainApiStart
    \/ MainIsActive
    \/ RunLoopPoll
    \/ RunLoopCheckActive
    \/ RunLoopCheckSingleton
    \/ MainApiStop
    \/ ShutdownStep(0)
    \/ MainReturn

(***************************************************************************)
(* main.rs: handle_rlimit_nofile_option                                    *)
(***************************************************************************)
Min(a, b) == IF a <= b THEN a ELSE b

\* numbers around x
Around(x) == {v \in (x - RlimitSlack)..(x + RlimitSlack) : v >= 0}

\* values of the option `rlimit-nofile`
RlimitRequests ==
    (0..RlimitSlack) \cup Around(RLIMIT_NOFILE_RESERVED) \cup Around(RLIMIT_NOFILE_MAX)
        \cup Around(RLIMIT_NOFILE_MAX + RLIMIT_NOFILE_RESERVED)
\* content of /proc/sys/fs/file-max
FileMaxValues ==
    (0..RlimitSlack) \cup Around(RLIMIT_NOFILE_RESERVED)
        \cup Around(2 * RLIMIT_NOFILE_RESERVED)
        \cup Around(RLIMIT_NOFILE_MAX + RLIMIT_NOFILE_RESERVED)
\* soft limits the process starts with
SoftLimits ==
    {RLIMIT_NOFILE_RESERVED \div 16} \cup Around(RLIMIT_NOFILE_MAX)
        \cup {RLIMIT_NOFILE_MAX + RLIMIT_NOFILE_RESERVED}

\* the option parses or not; get_max_rlimit_nofile, Resource::NOFILE.get and
\* Resource::NOFILE.set succeed or not; the build checks overflow or wraps
RlimitArgs ==
    [parse_ok : BOOLEAN, n : RlimitRequests, max_ok : BOOLEAN,
     file_max : FileMaxValues, get_ok : BOOLEAN, soft : SoftLimits,
     set_ok : BOOLEAN, overflow_checks : BOOLEAN]
NoRlimitArgs ==
    [parse_ok |-> TRUE, n |-> 0, max_ok |-> TRUE, file_max |-> 0,
     get_ok |-> TRUE, soft |-> RLIMIT_NOFILE_RESERVED \div 16, set_ok |-> TRUE,
     overflow_checks |-> TRUE]
NoRlimitTrace == [set |-> <<>>, underflow |-> FALSE]

InitRlimitIdle ==
    /\ rl_args = NoRlimitArgs
    /\ rl_limit = [soft |-> NoRlimitArgs.soft, hard |-> NoRlimitArgs.soft]
    /\ rl_trace = NoRlimitTrace
    /\ rl_ret = "none"

\* mutant of FileMaxTooLow: fs.file-max is not tested
FileMaxTooLow_NotTested(file_max) == FALSE

\* `if rlimit_nofile_max < 2 * RLIMIT_NOFILE_RESERVED`
FileMaxTooLow(file_max) == file_max < 2 * RLIMIT_NOFILE_RESERVED

\* std::cmp::min(rlimit_nofile_max - RLIMIT_NOFILE_RESERVED, RLIMIT_NOFILE_MAX)
\* in u64: a wrapped difference is above RLIMIT_NOFILE_MAX
ReducedMax(file_max) ==
    IF file_max >= RLIMIT_NOFILE_RESERVED
    THEN Min(file_max - RLIMIT_NOFILE_RESERVED, RLIMIT_NOFILE_MAX)
    ELSE RLIMIT_NOFILE_MAX

\* the closure given to Resource::NOFILE.get().map
RaisedToCurrent(curr, max) == IF curr >= max THEN curr ELSE max

\* the value handed to Resource::NOFILE.set
RlimitToSet(a) ==
    Min(a.n, RaisedToCurrent(a.soft, ReducedMax(a.file_max)))

\* handle_rlimit_nofile_option(args, "rlimit-nofile")
HandleRlimitNofileOption ==
    /\ rl_ret = "none"
    /\ LET a == rl_args
           keep(r) == /\ rl_ret' = r
                      /\ UNCHANGED <<rl_limit, rl_trace>>
       IN IF ~a.parse_ok THEN keep("Err:InvalidInput")
          ELSE IF a.n = 0 THEN keep("Ok")
          ELSE IF ~a.max_ok THEN keep("Err:file-max")
          ELSE IF FileMaxTooLow(a.file_max) THEN keep("Err:too-low")
          ELSE IF a.file_max < RLIMIT_NOFILE_RESERVED /\ a.overflow_checks
               THEN /\ rl_ret' = "panic"
                    /\ rl_trace' = [rl_trace EXCEPT !.underflow = TRUE]
                    /\ UNCHANGED rl_limit
          ELSE /\ rl_trace' =
                    [underflow |-> a.file_max < RLIMIT_NOFILE_RESERVED,
                     set |-> IF a.get_ok THEN <<RlimitToSet(a)>> ELSE <<>>]
               /\ IF ~a.get_ok
                  THEN rl_ret' = "Err:getrlimit" /\ UNCHANGED rl_limit
                  ELSE IF ~a.set_ok
                  THEN rl_ret' = "Err:setrlimit" /\ UNCHANGED rl_limit
                  ELSE /\ rl_ret' = "Ok"
                       /\ rl_limit' = [soft |-> RlimitToSet(a),
                                       hard |-> RlimitToSet(a)]
    /\ UNCHANGED <<rl_args, respondVars, prefetchVars, progressVars, noopVars, connVars,
                   daemonVars>>

(***************************************************************************)
(* main.rs: process_fs_service, the mount command and its prefetch list    *)
(***************************************************************************)
\* characters of a manifest: a path character, a blank, a carriage return
\* and a line feed
Chars == {"a", "SP", "CR", "LF"}
\* char::is_whitespace
Whitespace == {"SP", "CR", "LF"}

RECURSIVE SeqsUpTo(_)
SeqsUpTo(n) ==
    IF n = 0 THEN {<<>>}
    ELSE LET S == SeqsUpTo(n - 1)
         IN S \cup {Append(q, c) : q \in {x \in S : Len(x) = n - 1}, c \in Chars}
Manifests == SeqsUpTo(MaxManifestLen)

\* str::lines: the pieces between line feeds, a final empty piece dropped,
\* a carriage return before the line feed removed
RECURSIVE SplitLines(_, _)
SplitLines(str, cur) ==
    IF str = <<>>
    THEN IF cur = <<>> THEN <<>> ELSE <<cur>>
    ELSE IF Head(str) = "LF"
         THEN LET line == IF cur # <<>> /\ cur[Len(cur)] = "CR"
                          THEN SubSeq(cur, 1, Len(cur) - 1) ELSE cur
              IN <<line>> \o SplitLines(Tail(str), <<>>)
         ELSE SplitLines(Tail(str), Append(cur, Head(str)))
lines(content) == SplitLines(content, <<>>)

\* str::trim
RECURSIVE trim_start(_)
trim_start(str) ==
    IF str # <<>> /\ Head(str) \in Whitespace THEN trim_start(Tail(str)) ELSE str
RECURSIVE trim_end(_)
trim_end(str) ==
    IF str # <<>> /\ str[Len(str)] \in Whitespace
    THEN trim_end(SubSeq(str, 1, Len(str) - 1)) ELSE str
trim(str) == trim_end(trim_start(str))

\* mutant of SkipsLine: only empty lines are skipped
SkipsLine_EmptyOnly(line) == line = <<>>

\* `if line.is_empty() || line.trim().is_empty() { continue; }`
SkipsLine(line) == line = <<>> \/ trim(line) = <<>>

\* the loop over content.lines() that fills prefetch_files
RECURSIVE PushLines(_)
PushLines(ls) ==
    IF ls = <<>> THEN <<>>
    ELSE IF SkipsLine(Head(ls)) THEN PushLines(Tail(ls))
         ELSE <<trim(Head(ls))>> \o PushLines(Tail(ls))
prefetch_files(content) == PushLines(lines(content))

\* options of the command line and the files they name: `config` and
\* `prefetch-files` are absent, a readable file, or a path that cannot be read
PrefetchArgs ==
    [shared_dir : BOOLEAN, bootstrap : BOOLEAN, localfs_dir : BOOLEAN,
     config : {"absent", "readable", "unreadable"},
     prefetch : {"absent", "readable", "unreadable"},
     content : Manifests]
NoPrefetchArgs ==
    [shared_dir |-> FALSE, bootstrap |-> FALSE, localfs_dir |-> FALSE,
     config |-> "absent", prefetch |-> "absent", content |-> <<>>]
\* ret "none": process_fs_service has not run; "created": it went on to
\* create the daemon with mount_cmd
NoList == [some |-> FALSE, list |-> <<>>]
SomeList(l) == [some |-> TRUE, list |-> l]
NoPrefetchOut == [ret |-> "none", mount |-> "none", prefetch_files |-> NoList]

InitPrefetchIdle ==
    /\ pf_args = NoPrefetchArgs
    /\ pf_out = NoPrefetchOut

\* process_fs_service up to the creation of the daemon
ProcessFsService ==
    /\ pf_out.ret = "none"
    /\ LET a == pf_args
           out(r, m, p) == [ret |-> r, mount |-> m, prefetch_files |-> p]
       IN pf_out' =
            IF a.shared_dir THEN out("created", "PassthroughFs", NoList)
            ELSE IF ~a.bootstrap THEN out("created", "none", NoList)
            ELSE IF ~a.localfs_dir /\ a.config = "absent"
                 THEN out("Err:InvalidArguments", "none", NoList)
            ELSE IF ~a.localfs_dir /\ a.config = "unreadable"
                 THEN out("Err:io", "none", NoList)
            ELSE IF a.prefetch = "absent" THEN out("created", "Rafs", NoList)
            ELSE IF a.prefetch = "unreadable"
                 THEN out("Err:InvalidArguments", "none", NoList)
            ELSE out("created", "Rafs", SomeList(prefetch_files(a.content)))
    /\ UNCHANGED <<pf_args, respondVars, rlimitVars, progressVars, noopVars, connVars,
                   daemonVars>>

(***************************************************************************)
(* Progress: a reader that reports how much was read (connection.rs)      *)
(***************************************************************************)
\* values of one read of the inner reader: Ok(count) or Err. A count is at
\* most the length of the buffer, and the counts of one reader add up to
\* less than usize::MAX
ReadResults ==
    {[ok |-> TRUE, count |-> n] : n \in 0..MaxCount} \cup {[ok |-> FALSE, count |-> 0]}

\* Progress::new
ProgressNew(total) == [current |-> 0, total |-> total]

InitProgressIdle ==
    /\ pg_total = 0
    /\ progress = ProgressNew(0)
    /\ pg_ret = <<>>
    /\ pg_calls = <<>>

\* a reader that keeps the count of the last read only
CurrentAfter_LastRead(current, count) == count

\* self.current += count
CurrentAfter(current, count) == current + count

\* Progress::read: the inner read is made; on Ok(count) the counter is
\* advanced and the callback invoked, and the value is handed on as it is
ProgressRead ==
    /\ Len(pg_ret) < MaxReads
    /\ \E r \in ReadResults :
         /\ pg_ret' = Append(pg_ret, r)
         /\ IF r.ok
            THEN LET cur == CurrentAfter(progress.current, r.count)
                 IN /\ progress' = [progress EXCEPT !.current = cur]
                    /\ pg_calls' = Append(pg_calls, <<cur, progress.total>>)
            ELSE UNCHANGED <<progress, pg_calls>>
    /\ UNCHANGED <<pg_total, respondVars, rlimitVars, prefetchVars, noopVars, connVars,
                   daemonVars>>

(***************************************************************************)
(* NoopSuperBlock: the place-holding metadata driver (noop.rs)            *)
(***************************************************************************)
Inodes == 0..MaxInode

\* NoopSuperBlock::new: the struct has no field
NoopSuperBlockNew == <<>>

NoArg(op) == [op |-> op, n |-> 0, validate |-> FALSE]
\* the operations of RafsSuperInodes and RafsSuperBlock with their arguments
NoopCalls ==
    {NoArg(op) : op \in {"get_max_ino", "load", "update", "destroy",
                         "get_blob_infos", "root_ino", "set_blob_device"}}
    \cup {[op |-> op, n |-> i, validate |-> v] :
             op \in {"get_inode", "get_extended_inode"}, i \in Inodes, v \in BOOLEAN}
    \cup {[op |-> "get_chunk_info", n |-> i, validate |-> FALSE] : i \in Inodes}

Returned(kind, list) == [kind |-> kind, list |-> list]

\* an unimplemented!() that returned the unit value
unimplemented_Returns == Returned("unit", <<>>)

\* unimplemented!(): the thread panics
unimplemented == Returned("panic", <<>>)

\* the body of each operation
NoopOutcome(call) ==
    CASE call.op = "get_max_ino" -> unimplemented
      [] call.op = "get_inode" -> unimplemented
      [] call.op = "get_extended_inode" -> unimplemented
      [] call.op = "load" -> unimplemented
      [] call.op = "update" -> unimplemented
      [] call.op = "destroy" -> Returned("unit", <<>>)
      [] call.op = "get_blob_infos" -> Returned("vec", <<>>)
      [] call.op = "root_ino" -> unimplemented
      [] call.op = "get_chunk_info" -> unimplemented
      [] call.op = "set_blob_device" -> unimplemented

\* the block after an operation: no operation assigns anything
NoopBlockAfter(blk, call) == blk

InitNoopIdle ==
    /\ noop_blk = NoopSuperBlockNew
    /\ noop_calls = <<>>
    /\ noop_panicked = FALSE

\* one thread calls an operation on its NoopSuperBlock; a panic ends it
NoopCall ==
    /\ ~noop_panicked
    /\ Len(noop_calls) < MaxNoopCalls
    /\ \E c \in NoopCalls :
         LET o == NoopOutcome(c)
         IN /\ noop_calls' = Append(noop_calls, [call |-> c, out |-> o])
            /\ noop_panicked' = (o.kind = "panic")
            /\ noop_blk' = NoopBlockAfter(noop_blk, c)
    /\ UNCHANGED <<respondVars, rlimitVars, prefetchVars, progressVars, connVars,
                   daemonVars>>

\* no function is being applied on its own
InitFnIdle ==
    /\ InitRespondIdle
    /\ InitRlimitIdle
    /\ InitPrefetchIdle
    /\ InitProgressIdle
    /\ InitNoopIdle

(***************************************************************************)
(* Specifications                                                          *)
(***************************************************************************)
\* one Connection, its health thread and one calling thread
NextConn ==
    \/ ConnShutdown
    \/ HealthProbe
    \/ HealthCheckAfterProbe
    \/ HealthSleep
    \/ HealthCheckAfterSleep
    \/ CallBegin
    \/ CallCheckShutdown
    \/ CallRoute
    \/ CallProxy
    \/ CallOrigin
    \/ CallReturn

\* a Connection of any proxy configuration; the daemon process stays at its
\* start
InitSpecConn ==
    /\ InitConn
    /\ InitDaemon
    /\ subcommand = "fuse"
    /\ InitFnIdle

SpecConn == InitSpecConn /\ [][NextConn]_vars

\* the steps of the proxy-health thread
HealthThreadStep ==
    \/ HealthProbe
    \/ HealthCheckAfterProbe
    \/ HealthSleep
    \/ HealthCheckAfterSleep

\* one Connection and its health thread, no caller
NextHealth ==
    \/ ConnShutdown
    \/ HealthThreadStep

SpecHealth == InitSpecConn /\ [][NextHealth]_vars

\* the health thread is scheduled; its ping has a timeout and its sleep ends
FairSpecHealth == SpecHealth /\ WF_vars(HealthThreadStep)

\* requests without query, body and headers
PlainRequests ==
    {r \in Requests : /\ r.method = "GET" /\ r.query = <<>>
                      /\ r.data = NoData /\ r.headers = {}}

\* one Connection whose proxy has a ping URL, its health thread, the clock and
\* one calling thread that issues plain requests
NextThrottle ==
    \/ ClockStep
    \/ HealthThreadStep
    \/ CallBeginOf(PlainRequests)
    \/ CallCheckShutdown
    \/ CallRoute
    \/ CallProxy
    \/ CallOrigin
    \/ CallReturn

InitSpecThrottle ==
    /\ InitSpecConn
    /\ proxy.configured /\ proxy.has_ping

SpecThrottle == InitSpecThrottle /\ [][NextThrottle]_vars

\* the daemon process: main, the signal handlers and the hosted services
NextDaemon ==
    \/ MainStep
    \/ \E i \in Handlers : ShutdownStep(i)
    \/ SigExit
    \/ ServiceStopWake

\* the daemon process of either subcommand; the connection stays as built
InitSpecDaemon ==
    /\ InitConn
    /\ proxy = NoProxy
    /\ InitDaemon
    /\ InitFnIdle

SpecDaemon == InitSpecDaemon /\ [][NextDaemon]_vars

\* threads that can run are scheduled
FairSpecDaemon ==
    /\ SpecDaemon
    /\ WF_vars(MainStep)
    /\ \A i \in Handlers : WF_vars(ShutdownStep(i))

\* respond applied to a response of any status, for either catch_status
InitSpecRespond ==
    /\ InitConn
    /\ proxy = NoProxy
    /\ InitDaemon
    /\ subcommand = "fuse"
    /\ rs_args \in RespondArgs
    /\ rs_ret = NoResult
    /\ InitRlimitIdle
    /\ InitPrefetchIdle
    /\ InitProgressIdle
    /\ InitNoopIdle

NextRespond == Respond

SpecRespond == InitSpecRespond /\ [][NextRespond]_vars

\* handle_rlimit_nofile_option applied to options, fs.file-max values and
\* limits around the values it compares
InitSpecRlimit ==
    /\ InitConn
    /\ proxy = NoProxy
    /\ InitDaemon
    /\ subcommand = "fuse"
    /\ InitRespondIdle
    /\ InitPrefetchIdle
    /\ InitProgressIdle
    /\ InitNoopIdle
    /\ rl_args \in RlimitArgs
    /\ rl_limit \in {[soft |-> rl_args.soft, hard |-> h] :
                        h \in {rl_args.soft, RLIMIT_NOFILE_MAX + RLIMIT_NOFILE_RESERVED}}
    /\ rl_trace = NoRlimitTrace
    /\ rl_ret = "none"

NextRlimit == HandleRlimitNofileOption

SpecRlimit == InitSpecRlimit /\ [][NextRlimit]_vars

\* process_fs_service applied to every combination of its options and every
\* manifest of up to MaxManifestLen characters
InitSpecPrefetch ==
    /\ InitConn
    /\ proxy = NoProxy
    /\ InitDaemon
    /\ subcommand = "fuse"
    /\ InitRespondIdle
    /\ InitRlimitIdle
    /\ InitProgressIdle
    /\ InitNoopIdle
    /\ pf_args \in PrefetchArgs
    /\ pf_out = NoPrefetchOut

NextPrefetch == ProcessFsService

SpecPrefetch == InitSpecPrefetch /\ [][NextPrefetch]_vars

\* reads through a Progress reader made with any total
InitSpecProgress ==
    /\ InitConn
    /\ proxy = NoProxy
    /\ InitDaemon
    /\ subcommand = "fuse"
    /\ InitRespondIdle
    /\ InitRlimitIdle
    /\ InitPrefetchIdle
    /\ InitNoopIdle
    /\ pg_total \in 0..MaxTotal
    /\ progress = ProgressNew(pg_total)
    /\ pg_ret = <<>>
    /\ pg_calls = <<>>

NextProgress == ProgressRead

SpecProgress == InitSpecProgress /\ [][NextProgress]_vars

\* operations called on a NoopSuperBlock
InitSpecNoop ==
    /\ InitConn
    /\ proxy = NoProxy
    /\ InitDaemon
    /\ subcommand = "fuse"
    /\ InitRespondIdle
    /\ InitRlimitIdle
    /\ InitPrefetchIdle
    /\ InitProgressIdle
    /\ InitNoopIdle

NextNoop == NoopCall

SpecNoop == InitSpecNoop /\ [][NextNoop]_vars

\* the connection and the daemon process side by side
Init ==
    /\ InitConn
    /\ InitDaemon
    /\ InitFnIdle

Next == NextConn \/ NextDaemon
Spec == Init /\ [][Next]_vars


(***************************************************************************)
(* Properties of Connection::call (checked under SpecConn)                 *)
(***************************************************************************)
CallDone == cpc = "done"
\* the call got past the shutdown test and has returned
CallServed == CallDone /\ result # Disconnected
ProxyAttempted == proxy_sent # <<>>
OriginAttempted == origin_sent # <<>>
\* the proxy attempt ended with a transport error, or with a 5xx response
ProxyTransportError == ProxyAttempted /\ proxy_ret.kind = "Common"
ProxyAnswered(status) ==
    ProxyAttempted /\ proxy_ret.kind # "Common" /\ proxy_ret.status = status
ProxyAnswered5xx ==
    ProxyAttempted /\ proxy_ret.kind # "Common"
                   /\ proxy_ret.status >= INTERNAL_SERVER_ERROR

\* C1: a call() that starts after Connection.shutdown() has been called
\* returns Disconnected and hands no request to the proxy client nor to the
\* origin client, whatever the proxy configuration and health.
C1_DisconnectedAfterShutdown ==
    started_after_shutdown =>
        /\ cpc \in {"check", "done"}
        /\ proxy_sent = <<>>
        /\ origin_sent = <<>>
        /\ call_logs = <<>>
        /\ CallDone => result = Disconnected

C1_Witness ==
    /\ started_after_shutdown
    /\ CallDone
    /\ result = Disconnected
    /\ proxy.configured /\ health_status

\* C2: with a healthy proxy and fallback=true, call() sends the request to
\* the origin if and only if the proxy attempt returned a 5xx status or
\* raised a transport error (for either value of catch_status).
C2_FallbackIffProxy5xxOrTransportError ==
    (CallDone /\ ProxyAttempted /\ proxy.fallback) =>
        (OriginAttempted <=> (ProxyAnswered5xx \/ ProxyTransportError))

\* C3: a call() whose body is a streaming body (ReqBody::Read) never sends
\* the request to the origin client after a proxy attempt.
C3_StreamingBodyNeverFallsBack ==
    (req.data.kind = "Read" /\ ProxyAttempted) => ~OriginAttempted

\* C4: healthy proxy, non-streaming body, proxy answers 500: with
\* fallback=true the origin receives exactly one request, equal in method,
\* url, query, headers and body to the proxy's; with fallback=false it
\* receives none. One call() issues at most one proxy request and at most
\* one origin request.
C4_OneFallbackRequestSameBody ==
    /\ Len(proxy_sent) <= 1
    /\ Len(origin_sent) <= 1
    /\ (CallDone /\ req.data.kind # "Read" /\ ProxyAnswered(500)) =>
         IF proxy.fallback
         THEN /\ Len(origin_sent) = 1
              /\ origin_sent[1] = proxy_sent[1]
              /\ origin_sent[1] = [method |-> req.method, url |-> req.url,
                                   query |-> req.query, headers |-> req.headers,
                                   body |-> SentBody(req.data)]
         ELSE origin_sent = <<>>

C4_Witness ==
    /\ CallDone
    /\ req.data.kind = "Buf"
    /\ req.headers # {}
    /\ ProxyAnswered(500)
    /\ proxy.fallback
    /\ Len(origin_sent) = 1
    /\ origin_sent[1].body = [enc |-> "raw", bytes |-> req.data.content]

\* C5: the first attempt goes to the proxy client exactly when a proxy is
\* configured and ProxyHealth.ok read true at that call; with a proxy
\* configured and the health read false the call issues no proxy request and
\* exactly one origin request; the health flag is read at most once per call.
C5_ProxyFirstIffHealthyAtRead ==
    /\ Len(health_read) <= 1
    /\ (cpc \in {"proxy", "origin"} \/ CallServed) =>
         /\ Len(health_read) = (IF proxy.configured THEN 1 ELSE 0)
         /\ (cpc = "proxy" \/ ProxyAttempted)
               <=> (proxy.configured /\ health_read = <<TRUE>>)
    /\ ProxyAttempted =>
         /\ call_logs # <<>>
         /\ call_logs[1].kind = "request"
         /\ call_logs[1].proxy
    /\ (CallServed /\ proxy.configured /\ health_read = <<FALSE>>) =>
         /\ proxy_sent = <<>>
         /\ Len(origin_sent) = 1

\* the health flag changed after the call read it: the call kept to the
\* value it read
C5_Witness ==
    /\ CallServed
    /\ proxy.configured
    /\ health_read = <<FALSE>>
    /\ health_status
    /\ proxy_sent = <<>>
    /\ Len(origin_sent) = 1

\* C6: catch_status requested, healthy proxy answers 500: with fallback=true
\* the origin is tried and, when it answers 200, call() returns the origin's
\* successful response; with fallback=false call() returns the error made
\* from the proxy's 500 (ErrorWithMsg with the body text, Format when the text
\* cannot be read), never a success and never something of the origin.
\* Whenever a fallback happens, call() returns the value of the origin attempt.
C6_FallbackResultIsOriginResult ==
    /\ (CallDone /\ req.catch_status /\ ProxyAnswered(500)) =>
         IF proxy.fallback
         THEN /\ OriginAttempted
              /\ (origin_ret.ok /\ origin_ret.status = 200) =>
                    result = [ok |-> TRUE, kind |-> "Response", status |-> 200,
                              from |-> "origin"]
         ELSE /\ ~OriginAttempted
              /\ ~result.ok
              /\ result.kind \in {"ErrorWithMsg", "Format"}
              /\ result.status = 500
              /\ result.from = "proxy"
    /\ (CallDone /\ ProxyAttempted /\ OriginAttempted) =>
         /\ result = origin_ret
         /\ result.from = "origin"

C6_Witness ==
    /\ CallDone
    /\ req.catch_status
    /\ ProxyAnswered(500)
    /\ proxy.fallback
    /\ result.ok /\ result.status = 200 /\ result.from = "origin"

(***************************************************************************)
(* Properties of the DaemonController (checked under SpecDaemon)           *)
(***************************************************************************)
\* C7: run_loop returns on a waker event only after it has observed
\* active=false together with singleton_mode=false; it never returns on a
\* wake at which active is still true.
C7_LoopReturnsOnlyWhenInactive ==
    loop_exit.returned => (~loop_exit.active /\ ~loop_exit.singleton)

\* C8: in singleton mode, while shutdown() has not been called, a waker
\* event raised by a stopping service does not make run_loop return.
C8_SingletonLoopSurvivesServiceStop ==
    ~ /\ subcommand = "singleton"
      /\ loop_exit.returned
      /\ loop_exit.singleton
      /\ ~loop_exit.shutdown_called

\* the main thread is suspended under a signal handler that waits for the
\* daemon mutex the main thread itself holds
MainBlockedForever ==
    \E j \in Handlers :
        /\ sd[j].on_main
        /\ Runs(j)
        /\ sd[j].pc = "lock"
        /\ daemon_lock.held /\ daemon_lock.by = 0

\* C9: after shutdown() was invoked by the signal handler while run_loop was
\* blocked on the poller, and run_loop has returned on the wake of that
\* shutdown, main goes on to return Ok: no interleaving leaves the main
\* thread blocked forever.
C9_MainNeverBlockedAfterSignal ==
    (/\ \E i \in Handlers : sd[i].in_loop /\ sd[i].pc = "done"
     /\ loop_exit.returned /\ ~loop_exit.active /\ ~loop_exit.singleton)
        => ~MainBlockedForever

\* C10: shutdown() run by the signal handler only stores the two flags and
\* wakes the waker: it acquires no mutex and calls nothing that blocks.
C10_ShutdownTouchesOnlyFlagsAndWaker ==
    \A i \in Handlers :
        /\ ~(daemon_lock.held /\ daemon_lock.by = i)
        /\ sd[i].pc \notin {"take", "trigger_stop", "wait"}


\* number of invocations of `call` recorded on the installed daemon
StopCallCount(call) == Cardinality({k \in 1..Len(stop_calls) : stop_calls[k] = call})

\* activation t of shutdown() started when main had finished installing the
\* daemon: main's own call, or a handler that found main in run_loop
AfterInstall(t) == t = 0 \/ sd[t].in_loop

\* C11: shutdown() called N >= 2 times, one call after another or from
\* several threads at once, ends where one call ends (active=false,
\* singleton_mode=false, daemon slot empty), and trigger_stop and wait are
\* each invoked at most once on the installed daemon, by the one call that
\* took it out of the slot.
C11_ShutdownIdempotent ==
    /\ StopCallCount("trigger_stop") <= 1
    /\ StopCallCount("wait") <= 1
    /\ stop_calls \in {<<>>, <<"trigger_stop">>, <<"trigger_stop", "wait">>}
    /\ Cardinality({t \in Activations : sd[t].d = "installed"}) <= 1
    /\ \A t \in Activations :
         (AfterInstall(t) /\ sd[t].pc = "done") =>
             /\ ~active
             /\ ~singleton_mode
             /\ daemon = "none"

\* three calls have returned, two of them from signal handlers, and the
\* daemon was stopped once
C11_Witness ==
    /\ \A t \in 0..2 : sd[t].pc = "done"
    /\ sd[1].in_loop
    /\ stop_calls = <<"trigger_stop", "wait">>
    /\ ~active /\ ~singleton_mode /\ daemon = "none"


(***************************************************************************)
(* Properties of the proxy-health thread (checked under SpecHealth)        *)
(***************************************************************************)
HealthThreadGone == hpc \in {"none", "exited"}

\* C12: the health thread is owned and joined by its Connection: when
\* Connection.shutdown() has completed the health thread has exited.
C12_HealthThreadJoinedByShutdown ==
    shutdown => HealthThreadGone

\* C13: after Connection.shutdown() the health thread terminates; it tests
\* the flag after every probe and after every sleep, leaves its loop at the
\* first test that sees the flag set, and from then on does no probe, no
\* write to ProxyHealth.ok and no log emission.
C13_HealthThreadStopsAfterShutdown ==
    /\ [][(hpc = "probe" /\ hpc' # hpc) => hpc' = "check1"]_vars
    /\ [][(hpc = "sleep" /\ hpc' # hpc) => hpc' = "check2"]_vars
    /\ [][(hpc \in {"check1", "check2"} /\ hpc' # hpc) =>
              hpc' = (IF shutdown THEN "exited"
                      ELSE IF hpc = "check1" THEN "sleep" ELSE "probe")]_vars
    /\ [][hpc = "exited" => UNCHANGED healthVars]_vars
    /\ (shutdown ~> HealthThreadGone)

\* the thread has left its loop after a shutdown that found it running
C13_Witness ==
    /\ shutdown
    /\ hpc = "exited"
    /\ last_ping # NoPing


\* C14: a health thread exists only for a proxy with a ping URL;
\* ProxyHealth.ok starts true and only that thread writes it, so for a proxy
\* without ping URL ProxyHealth.ok is true in every reachable state and every
\* call() that serves its request attempts the proxy first.
C14_NoPingProxyAlwaysHealthy ==
    /\ hpc # "none" => (proxy.configured /\ proxy.has_ping)
    /\ hpc = "none" => (health_status /\ last_ping = NoPing /\ hlog = "none")
    /\ (proxy.configured /\ ~proxy.has_ping) =>
         /\ hpc = "none"
         /\ health_status
         /\ (cpc \in {"proxy", "origin"} \/ CallServed) =>
               /\ health_read = <<TRUE>>
               /\ cpc = "proxy" \/ ProxyAttempted
               /\ call_logs # <<>> => call_logs[1].kind = "request" /\ call_logs[1].proxy

C14_Witness ==
    /\ proxy.configured /\ ~proxy.has_ping
    /\ CallServed
    /\ ProxyAttempted /\ OriginAttempted
    /\ health_status

\* a probe result that counts as healthy; the thread starts as healthy
PingHealthy(p) ==
    p = NoPing \/ (p.kind = "response" /\ p.status >= 200 /\ p.status < 400)

\* C15 as stated: each probe sets ProxyHealth.ok to true exactly when the
\* ping returned a 2xx response, and to false for every other status and
\* for every transport error.
C15_OkIffPing2xx ==
    last_ping # NoPing =>
        (health_status <=> (/\ last_ping.kind = "response"
                            /\ last_ping.status >= 200
                            /\ last_ping.status < 300))

\* C15 amended: each probe sets ProxyHealth.ok to true exactly when the ping
\* returned a response whose status satisfies 200 <= code < 400 (3xx
\* included), and to false for every other status and every transport error.
C15_OkIffPingSuccessStatus ==
    last_ping # NoPing =>
        (health_status <=> (/\ last_ping.kind = "response"
                            /\ last_ping.status >= 200
                            /\ last_ping.status < 400))

\* a 308 answer to the ping has marked the proxy healthy
C15_Witness ==
    /\ hpc = "check1"
    /\ last_ping.kind = "response" /\ last_ping.status = 308
    /\ health_status

\* C16: the health thread logs on transition edges only: over any sequence
\* of probe results, the state before the first probe counting as healthy, a
\* probe emits the warning exactly when the previous result was healthy and
\* this one is not, the info line exactly when the previous was unhealthy and
\* this one is healthy, and nothing when the two agree; after each probe the
\* remembered last result equals ProxyHealth.ok.
C16_LogsOnlyOnEdges ==
    /\ [][(hpc = "probe" /\ hpc' = "check1") =>
            /\ hlog' = "warn" <=> (PingHealthy(last_ping) /\ ~PingHealthy(last_ping'))
            /\ hlog' = "info" <=> (~PingHealthy(last_ping) /\ PingHealthy(last_ping'))
            /\ hlog' = "none" <=> (PingHealthy(last_ping) <=> PingHealthy(last_ping'))
            /\ last_success' = health_status']_vars
    /\ [][hlog' # hlog => (hpc = "probe" /\ hpc' = "check1")]_vars
    /\ [](last_success = health_status)

\* the thread has logged the recovery of the proxy
C16_Witness ==
    /\ hpc = "check1"
    /\ hlog = "info"
    /\ health_status /\ last_success


(***************************************************************************)
(* Properties of the rate limited warning (checked under SpecThrottle)     *)
(***************************************************************************)
\* ticks of the rate limiting window
WindowTicks == RATE_LIMITED_LOG_TIME * TicksPerSecond

\* the clock reads a time inside the window opened by the latest warning of
\* the calling thread
InsideWindow ==
    /\ warn_times # <<>>
    /\ now >= warn_times[Len(warn_times)]
    /\ now - warn_times[Len(warn_times)] < WindowTicks

\* the call in progress took the branch of the unhealthy proxy
RoutesUnhealthy ==
    cpc = "route" /\ proxy.configured /\ ~health_status

\* C17: within one calling thread two emissions of the 'proxy unhealthy'
\* warning by call() are at least 2 seconds apart; a call made inside the
\* 2-second window emits no warning, leaves the thread-local timestamp
\* unchanged and still sends its request to the origin.
C17_WarningRateLimited ==
    /\ [](\A k \in 1..(Len(warn_times) - 1) :
             warn_times[k + 1] - warn_times[k] >= WindowTicks)
    /\ [](warn_times # <<>> => LAST_FALLBACK_AT = warn_times[Len(warn_times)])
    /\ [][(RoutesUnhealthy /\ InsideWindow /\ cpc' # cpc) =>
              /\ cpc' = "origin"
              /\ UNCHANGED <<LAST_FALLBACK_AT, warn_times, call_logs>>]_vars
    /\ [][(cpc = "origin" /\ cpc' # cpc) =>
              /\ cpc' = "done"
              /\ Len(origin_sent') = Len(origin_sent) + 1
              /\ origin_sent'[Len(origin_sent')].url = req.url]_vars

\* after two warnings a third call, made inside the window of the second,
\* was served by the origin without a warning
C17_Witness ==
    /\ Len(warn_times) = 2
    /\ InsideWindow
    /\ CallServed
    /\ health_read = <<FALSE>>
    /\ call_logs # <<>> /\ call_logs[1].kind = "request"
    /\ Len(origin_sent) = 1


(***************************************************************************)
(* Properties of call_inner (checked under SpecConn)                       *)
(***************************************************************************)
RequestLogs == {k \in 1..Len(call_logs) : call_logs[k].kind = "request"}

\* C18: every log record call_inner produces for a request shows a header
\* set without the Authorization header, while the headers given to the
\* client with the request are exactly the caller's headers, Authorization
\* included, for the proxy attempt and for the origin attempt.
C18_AuthorizationRedactedInLogsOnly ==
    /\ \A k \in RequestLogs :
         /\ HEADER_AUTHORIZATION \notin call_logs[k].headers
         /\ call_logs[k].headers \cup {HEADER_AUTHORIZATION}
               = req.headers \cup {HEADER_AUTHORIZATION}
    /\ \A k \in 1..Len(proxy_sent) : proxy_sent[k].headers = req.headers
    /\ \A k \in 1..Len(origin_sent) : origin_sent[k].headers = req.headers
    /\ Cardinality(RequestLogs) = Len(proxy_sent) + Len(origin_sent)

\* a request with an Authorization header went to the proxy and then to the
\* origin, each attempt with its log record
C18_Witness ==
    /\ CallDone
    /\ HEADER_AUTHORIZATION \in req.headers
    /\ Len(proxy_sent) = 1 /\ HEADER_AUTHORIZATION \in proxy_sent[1].headers
    /\ Len(origin_sent) = 1 /\ HEADER_AUTHORIZATION \in origin_sent[1].headers
    /\ Cardinality(RequestLogs) = 2
    /\ \A k \in RequestLogs : call_logs[k].headers = {"Range"}


(***************************************************************************)
(* Properties of is_success_status and respond (checked under SpecRespond) *)
(***************************************************************************)
Responded == rs_ret # NoResult

\* C19: a status is a success status iff 200 <= code < 400 (100 and 400 are
\* not, 200 and 308 are). With catch_status=true respond turns a response
\* into an error exactly when its status is not a success status; with
\* catch_status=false every response is returned as Ok whatever its status.
C19_SuccessStatusAndCatchStatus ==
    /\ ~is_success_status(100) /\ is_success_status(200)
    /\ is_success_status(308) /\ ~is_success_status(400)
    /\ is_success_status(rs_args.status)
          <=> (200 <= rs_args.status /\ rs_args.status < 400)
    /\ Responded =>
         /\ rs_ret.status = rs_args.status
         /\ rs_args.catch_status =>
               (~rs_ret.ok <=> ~(200 <= rs_args.status /\ rs_args.status < 400))
         /\ ~rs_args.catch_status => (rs_ret.ok /\ rs_ret.kind = "Response")
         /\ ~rs_ret.ok => rs_ret.kind \in {"ErrorWithMsg", "Format"}

\* with catch_status a 399 came back as Ok; the arguments cover the statuses
\* around both ends of the success range
C19_Witness ==
    /\ Responded
    /\ rs_args.catch_status
    /\ rs_args.status = 399
    /\ rs_ret.ok


(***************************************************************************)
(* Properties of the slot mutexes (checked under SpecDaemon)               *)
(***************************************************************************)
\* the thread that executes activation t of shutdown(): the main thread for
\* main's own call and for a handler that interrupted it
ThreadOf(t) == IF t = 0 \/ sd[t].on_main THEN 0 ELSE t

\* the slot mutexes held by code that executes on `thread`
SlotMutexesHeld(thread) ==
    {m \in {"daemon", "blob_cache_mgr", "fs_service"} :
        LET l == CASE m = "daemon"         -> daemon_lock
                   [] m = "blob_cache_mgr" -> blob_cache_mgr_lock
                   [] OTHER                -> fs_service_lock
        IN l.held /\ ThreadOf(l.by) = thread}

\* C20: no thread ever holds two of the slot mutexes (daemon, blob_cache_mgr,
\* fs_service) at the same time, a thread interrupted by the signal handler
\* included; shutdown() has released the daemon mutex before it calls
\* trigger_stop and wait.
C20_NoThreadHoldsTwoSlotMutexes ==
    /\ \A thread \in Activations : Cardinality(SlotMutexesHeld(thread)) <= 1
    /\ \A t \in Activations :
         sd[t].pc \in {"trigger_stop", "wait"} =>
             ~(daemon_lock.held /\ daemon_lock.by = t)


(***************************************************************************)
(* Properties of signals during start-up and at the end of main            *)
(* (checked under SpecDaemon)                                              *)
(***************************************************************************)
\* C24: a shutdown() run by the signal handler always completes: it never
\* waits for a DaemonController mutex held by the thread it interrupted, so
\* no arrival time of a signal blocks the process forever.
C24_HandlerNeverWaitsForInterruptedThread ==
    \A j \in Handlers :
        ~ /\ sd[j].on_main
          /\ sd[j].pc = "lock"
          /\ daemon_lock.held
          /\ daemon_lock.by # j
          /\ ThreadOf(daemon_lock.by) = 0

\* C25: once set_daemon has installed the daemon, the get_daemon() call of
\* main returns it without panicking, for every arrival time of a signal.
C25_GetDaemonNeverPanics ==
    mpc # "panicked" /\ exit_code # "panic"

MainReturnedOk == mpc = "done" /\ exit_code = "Ok"

\* C26: whenever main returns Ok, trigger_stop and then wait have been
\* invoked exactly once, in that order, on the installed daemon and the
\* daemon slot is empty, whatever the arrival time of a stop signal.
C26_DaemonStoppedOnceWhenMainReturnsOk ==
    MainReturnedOk =>
        /\ stop_calls = <<"trigger_stop", "wait">>
        /\ daemon = "none"

\* C27: active is true initially and monotonic: once false it never becomes
\* true again, it is false only in states where shutdown() has been
\* invoked, and run_loop never changes it from true to false.
C27_ActiveMonotonic ==
    /\ [][active' => active]_vars
    /\ [](~active => ShutdownCalled)
    /\ [](~ShutdownCalled => active)
    /\ [][(mpc \in {"poll", "check_active", "check_singleton"} /\ mpc' # mpc)
            => active' = active]_vars

\* run_loop has returned through the branch that stores active=false
C27_Witness ==
    /\ loop_exit.returned
    /\ ~loop_exit.active /\ ~loop_exit.singleton
    /\ ~active
    /\ \E i \in Handlers : sd[i].in_loop


(***************************************************************************)
(* Request bodies (checked under SpecConn)                                 *)
(***************************************************************************)
\* C28: the client, proxy or origin, whose response call() returns was sent
\* the caller's request body unchanged, for the three body kinds Read, Buf
\* and Form; a streaming body answered by a healthy proxy reached the proxy.
C28_ResponderGotCallersBody ==
    (CallDone /\ result.ok) =>
        /\ result.from = "proxy" =>
              /\ ProxyAttempted
              /\ proxy_sent[Len(proxy_sent)].body = SentBody(req.data)
        /\ result.from = "origin" =>
              /\ OriginAttempted
              /\ origin_sent[Len(origin_sent)].body = SentBody(req.data)


(***************************************************************************)
(* Properties of handle_rlimit_nofile_option (checked under SpecRlimit)    *)
(***************************************************************************)
RlimitHandled == rl_ret # "none"
RlimitUnchanged == rl_limit.soft = rl_args.soft /\ rl_trace.set = <<>>
\* min(n, max(current_soft, min(file_max - 16384, 1000000)))
RlimitExpected ==
    LET reduced == IF rl_args.file_max - 16384 <= 1000000
                   THEN rl_args.file_max - 16384 ELSE 1000000
        raised == IF rl_args.soft >= reduced THEN rl_args.soft ELSE reduced
    IN IF rl_args.n <= raised THEN rl_args.n ELSE raised

\* C29: handle_rlimit_nofile_option with requested value n: n = 0 leaves the
\* limit unchanged; for n # 0 it fails without changing the limit when the
\* system file-max is below 2*16384, and otherwise sets soft = hard =
\* min(n, max(current_soft, min(file_max - 16384, 1000000))); the value set
\* never exceeds n and the subtraction never underflows.
C29_RlimitNofileArithmetic ==
    /\ ~rl_trace.underflow /\ rl_ret # "panic"
    /\ (RlimitHandled /\ rl_args.parse_ok) =>
         /\ rl_args.n = 0 => (rl_ret = "Ok" /\ RlimitUnchanged)
         /\ (rl_args.n # 0 /\ rl_args.max_ok /\ rl_args.file_max < 2 * 16384) =>
               (rl_ret = "Err:too-low" /\ RlimitUnchanged)
         /\ (rl_args.n # 0 /\ rl_args.max_ok /\ rl_args.file_max >= 2 * 16384
                /\ rl_args.get_ok) =>
               /\ rl_trace.set = <<RlimitExpected>>
               /\ rl_trace.set[1] <= rl_args.n
               /\ IF rl_args.set_ok
                  THEN /\ rl_ret = "Ok"
                       /\ rl_limit = [soft |-> RlimitExpected, hard |-> RlimitExpected]
                  ELSE /\ rl_ret = "Err:setrlimit"
                       /\ rl_limit.soft = rl_args.soft
         /\ rl_ret # "Ok" => rl_limit.soft = rl_args.soft

\* a request above the reduced maximum was cut down to it
C29_Witness ==
    /\ rl_ret = "Ok"
    /\ rl_args.n = 1000001
    /\ rl_args.file_max = 1016384
    /\ rl_args.soft < 1000000
    /\ rl_limit = [soft |-> 1000000, hard |-> 1000000]


(***************************************************************************)
(* Properties of the prefetch list (checked under SpecPrefetch)            *)
(***************************************************************************)
\* the manifest read character by character: an entry starts at the first
\* character of a line that is not whitespace and ends at the last one
RECURSIVE ScanManifest(_, _, _)
ScanManifest(str, entry, blanks) ==
    LET done == IF entry = <<>> THEN <<>> ELSE <<entry>>
    IN IF str = <<>> THEN done
       ELSE IF Head(str) = "LF"
            THEN done \o ScanManifest(Tail(str), <<>>, <<>>)
       ELSE IF Head(str) \in Whitespace
            THEN ScanManifest(Tail(str), entry,
                              IF entry = <<>> THEN <<>> ELSE Append(blanks, Head(str)))
       ELSE ScanManifest(Tail(str), entry \o blanks \o <<Head(str)>>, <<>>)

FsServiceRan == pf_out.ret # "none"
\* process_fs_service got as far as reading the manifest
ManifestUsed ==
    /\ ~pf_args.shared_dir /\ pf_args.bootstrap
    /\ pf_args.localfs_dir \/ pf_args.config = "readable"
    /\ pf_args.prefetch # "absent"

\* the list built from a manifest that was read
PrefetchListRight ==
    (FsServiceRan /\ pf_out.prefetch_files.some) =>
        LET l == pf_out.prefetch_files.list
        IN /\ ManifestUsed /\ pf_args.prefetch = "readable"
           /\ pf_out.ret = "created" /\ pf_out.mount = "Rafs"
           /\ l = ScanManifest(pf_args.content, <<>>, <<>>)
           /\ \A k \in 1..Len(l) :
                 /\ l[k] # <<>>
                 /\ l[k][1] \notin Whitespace
                 /\ l[k][Len(l[k])] \notin Whitespace
                 /\ \A j \in 1..Len(l[k]) : l[k][j] # "LF"

\* C21 as stated: the prefetch list is, in file order, the trimmed content
\* of exactly the lines that are not empty and not whitespace-only, no entry
\* is empty, and a manifest that cannot be read makes process_fs_service
\* fail with InvalidArguments before any daemon is installed.
C21_PrefetchListAndUnreadableManifest ==
    /\ PrefetchListRight
    /\ (FsServiceRan /\ pf_args.prefetch = "unreadable") =>
          pf_out.ret = "Err:InvalidArguments"

\* C21 amended: the list is as stated; a manifest that cannot be read makes
\* process_fs_service fail with InvalidArguments before any daemon is
\* installed when the manifest is used, that is for a bootstrap given
\* without shared-dir whose configuration was obtained (localfs-dir, or a
\* readable config); otherwise the prefetch-files option is never read.
C21_PrefetchListAndUsedManifest ==
    /\ PrefetchListRight
    /\ (FsServiceRan /\ ManifestUsed) =>
          IF pf_args.prefetch = "unreadable"
          THEN pf_out.ret = "Err:InvalidArguments" /\ pf_out.mount = "none"
          ELSE pf_out.ret = "created" /\ pf_out.prefetch_files.some
    /\ (FsServiceRan /\ ~ManifestUsed) => ~pf_out.prefetch_files.some

\* a whitespace-only line was skipped and the next line trimmed
C21_Witness ==
    /\ pf_out.ret = "created"
    /\ pf_args.content = <<"SP", "LF", "a", "SP">>
    /\ pf_out.prefetch_files = SomeList(<< <<"a">> >>)

(***************************************************************************)
(* Properties of the Progress reader (checked under SpecProgress)          *)
(***************************************************************************)
RECURSIVE SumCounts(_)
\* bytes of the successful reads among rs
SumCounts(rs) ==
    IF rs = <<>> THEN 0
    ELSE (IF Head(rs).ok THEN Head(rs).count ELSE 0) + SumCounts(Tail(rs))

SuccessfulReads == SelectSeq(pg_ret, LAMBDA r : r.ok)

\* C22: after any sequence of reads, current is the sum of the byte counts
\* of the successful reads, the callback was invoked exactly once per
\* successful read with (current after that read, total), total is the
\* total given at the construction, and a failed read moved no counter and
\* invoked no callback.
C22_ProgressCountsSuccessfulReads ==
    /\ progress.current = SumCounts(pg_ret)
    /\ progress.total = pg_total
    /\ Len(pg_calls) = Len(SuccessfulReads)
    /\ \A k \in 1..Len(pg_calls) :
         pg_calls[k] = <<SumCounts(SubSeq(SuccessfulReads, 1, k)), pg_total>>

\* a failed read between two successful ones
C22_Witness ==
    /\ pg_total = 2
    /\ pg_ret = <<[ok |-> TRUE, count |-> 1], [ok |-> FALSE, count |-> 0],
                  [ok |-> TRUE, count |-> 2]>>
    /\ pg_calls = << <<1, 2>>, <<3, 2>> >>
    /\ progress.current = 3

(***************************************************************************)
(* Properties of the NoopSuperBlock (checked under SpecNoop)               *)
(***************************************************************************)
MetadataOps ==
    {"get_max_ino", "get_inode", "get_extended_inode", "load", "update", "root_ino",
     "get_chunk_info", "set_blob_device"}

\* C23: on a NoopSuperBlock every metadata operation (get_max_ino,
\* get_inode, get_extended_inode, load, update, root_ino, get_chunk_info,
\* set_blob_device) panics; only get_blob_infos, always with the empty list,
\* and destroy, with no effect, return normally.
C23_NoopPanicsExceptBlobInfosAndDestroy ==
    /\ noop_blk = NoopSuperBlockNew
    /\ \A k \in 1..Len(noop_calls) :
         LET op == noop_calls[k].call.op
             o == noop_calls[k].out
         IN /\ op \in MetadataOps => o.kind = "panic"
            /\ o.kind # "panic" => op \in {"get_blob_infos", "destroy"}
            /\ op = "get_blob_infos" => o = Returned("vec", <<>>)
            /\ op = "destroy" => o = Returned("unit", <<>>)
            /\ o.kind = "panic" => k = Len(noop_calls) /\ noop_panicked

\* destroy and get_blob_infos returned and get_inode then panicked
C23_Witness ==
    /\ Len(noop_calls) = 3
    /\ noop_calls[1].call.op = "destroy"
    /\ noop_calls[2].call.op = "get_blob_infos"
    /\ noop_calls[2].out = Returned("vec", <<>>)
    /\ noop_calls[3].call.op = "get_inode"
    /\ noop_panicked

====
